---- MODULE Spec2Model ----
(***************************************************************************)
(* A model of the MyFitnessPal MCP server: the date parser, the cookie     *)
(* loader and the Account Client (api_client.py), and the six tools of     *)
(* server.py with their failure boundary.                                  *)
(*                                                                         *)
(* Text is modelled as a sequence of one-character strings, a calendar     *)
(* date as a record [year, month, day], a rendered report as a record of   *)
(* its rendered numbers.  The remote service and the scraping library are  *)
(* collaborators: a fetch either raises or returns a Day drawn from a      *)
(* pool, chosen anew at every round trip.                                  *)
(***************************************************************************)
EXTENDS Integers, Sequences, FiniteSets, TLC

VARIABLES
    today,          \* date.today(): the process's calendar date
    environ,        \* os.getenv('MFP_COOKIES')
    _client,        \* server.py:34, the global client instance
    constructions,  \* history: how often MyFitnessPalClient() has run
    warnings,       \* history: how many "Warning: ..." lines were printed
    pc,             \* where the tool invocation in progress stands
    call,           \* the tool invoked and its arguments
    start,          \* get_date_range_summary: start
    end,            \* get_date_range_summary: end
    current,        \* get_date_range: current
    yielded,        \* the Day the generator is suspended on
    daily_data,     \* get_date_range_summary: daily_data
    fetches,        \* history: the get_day round trips of this invocation
    events,         \* history: what this invocation did, in order
    response,       \* what the invocation returned
    arg,            \* the argument of a function applied on its own
    ret             \* its result

vars == <<today, environ, _client, constructions, warnings, pc, call, start,
          end, current, yielded, daily_data, fetches, events, response,
          arg, ret>>

(***************************************************************************)
(* Bounds of the model.                                                    *)
(***************************************************************************)
\* the longest range (in days) a ranged fetch is asked for
MaxRange == 3
\* how many constructor runs are followed
MaxConstructions == 3
\* how many entries an MFP_COOKIES mapping holds at most
MaxCookies == 2
\* the water amounts rendered on their own: 0..MaxWater millilitres
MaxWater == 2500

(***************************************************************************)
(* Python values.                                                          *)
(***************************************************************************)
\* None where a text is expected: a one-element sequence that is no text
\* (every element of a text is a single character)
None == <<"None">>

Digits == {"0", "1", "2", "3", "4", "5", "6", "7", "8", "9"}

DigitValue(c) ==
    CASE c = "0" -> 0 [] c = "1" -> 1 [] c = "2" -> 2 [] c = "3" -> 3
      [] c = "4" -> 4 [] c = "5" -> 5 [] c = "6" -> 6 [] c = "7" -> 7
      [] c = "8" -> 8 [] c = "9" -> 9

\* int() of a text of decimal digits
RECURSIVE IntOf(_)
IntOf(t) ==
    IF t = <<>> THEN 0
    ELSE 10 * IntOf(SubSeq(t, 1, Len(t) - 1)) + DigitValue(t[Len(t)])

(***************************************************************************)
(* datetime.date: the proleptic Gregorian calendar, years 1..9999.         *)
(***************************************************************************)
MINYEAR == 1
MAXYEAR == 9999

IsLeap(y) == (y % 4 = 0 /\ y % 100 # 0) \/ y % 400 = 0

DaysInMonth(y, m) ==
    IF m = 2 THEN (IF IsLeap(y) THEN 29 ELSE 28)
    ELSE IF m \in {4, 6, 9, 11} THEN 30 ELSE 31

Date(y, m, d) == [year |-> y, month |-> m, day |-> d]

IsDate(y, m, d) ==
    /\ y >= MINYEAR /\ y <= MAXYEAR
    /\ m >= 1 /\ m <= 12
    /\ d >= 1 /\ d <= DaysInMonth(y, m)

\* date.__gt__ / __le__: dates compare as (year, month, day)
DateLess(a, b) ==
    \/ a.year < b.year
    \/ a.year = b.year /\ a.month < b.month
    \/ a.year = b.year /\ a.month = b.month /\ a.day < b.day

\* a loop test `current < end_date`, which leaves the end date out
DateLeqExclusive(a, b) == DateLess(a, b)

DateLeq(a, b) == a = b \/ DateLess(a, b)

DateMax == Date(MAXYEAR, 12, 31)

\* date.toordinal(): days since 0001-01-01, that day being 1
DaysBeforeMonth(y, m) ==
    <<0, 31, 59, 90, 120, 151, 181, 212, 243, 273, 304, 334>>[m]
        + (IF m > 2 /\ IsLeap(y) THEN 1 ELSE 0)

ToOrdinal(d) ==
    LET p == d.year - 1
    IN  p * 365 + (p \div 4) - (p \div 100) + (p \div 400)
            + DaysBeforeMonth(d.year, d.month) + d.day

\* an increment that does not move on: the same date is asked for again
PlusOneDayStuck(d) == [ok |-> TRUE, value |-> d]

\* d + timedelta(days=1); the date after date.max does not exist
\* (OverflowError: date value out of range)
PlusOneDay(d) ==
    IF d = DateMax
    THEN [ok |-> FALSE,
          exc |-> [type |-> "OverflowError",
                   message |-> [text |-> "date value out of range", arg |-> <<>>]]]
    ELSE [ok |-> TRUE,
          value |-> IF d.day < DaysInMonth(d.year, d.month)
                    THEN Date(d.year, d.month, d.day + 1)
                    ELSE IF d.month < 12 THEN Date(d.year, d.month + 1, 1)
                    ELSE Date(d.year + 1, 1, 1)]

(***************************************************************************)
(* datetime.strptime(date_str, '%Y-%m-%d')                                 *)
(*   %Y is \d\d\d\d, %m is 1[0-2]|0[1-9]|[1-9],                            *)
(*   %d is 3[01]|[12]\d|0[1-9]|[1-9]| [1-9]; the text must match wholly,   *)
(*   and the fields must denote a date.                                    *)
(***************************************************************************)
MatchYear(t) == Len(t) = 4 /\ \A i \in 1..4 : t[i] \in Digits

MatchMonth(t) ==
    \/ Len(t) = 2 /\ t[1] = "1" /\ t[2] \in {"0", "1", "2"}
    \/ Len(t) = 2 /\ t[1] = "0" /\ t[2] \in Digits \ {"0"}
    \/ Len(t) = 1 /\ t[1] \in Digits \ {"0"}

MatchDay(t) ==
    \/ Len(t) = 2 /\ t[1] = "3" /\ t[2] \in {"0", "1"}
    \/ Len(t) = 2 /\ t[1] \in {"1", "2"} /\ t[2] \in Digits
    \/ Len(t) = 2 /\ t[1] = "0" /\ t[2] \in Digits \ {"0"}
    \/ Len(t) = 1 /\ t[1] \in Digits \ {"0"}
    \/ Len(t) = 2 /\ t[1] = " " /\ t[2] \in Digits \ {"0"}

\* a parser that takes zero-padded two-digit fields only
StrictWidths(s) ==
    {k \in {2} :
        /\ Len(s) = 10
        /\ MatchYear(SubSeq(s, 1, 4))
        /\ s[5] = "-"
        /\ MatchMonth(SubSeq(s, 6, 7))
        /\ s[8] = "-"
        /\ MatchDay(SubSeq(s, 9, 10))
        /\ s[9] # " "}

\* the lengths k of a month field with which the whole text matches
MonthWidths(s) ==
    {k \in {1, 2} :
        /\ Len(s) >= 7 + k
        /\ MatchYear(SubSeq(s, 1, 4))
        /\ s[5] = "-"
        /\ MatchMonth(SubSeq(s, 6, 5 + k))
        /\ s[6 + k] = "-"
        /\ MatchDay(SubSeq(s, 7 + k, Len(s)))}

DayValue(t) == IF t[1] = " " THEN DigitValue(t[2]) ELSE IntOf(t)

\* [ok |-> TRUE, value |-> date] or [ok |-> FALSE] (ValueError)
strptime(s) ==
    LET ks == MonthWidths(s)
    IN  IF ks = {} THEN [ok |-> FALSE]
        ELSE LET k == CHOOSE w \in ks : TRUE
                 y == IntOf(SubSeq(s, 1, 4))
                 m == IntOf(SubSeq(s, 6, 5 + k))
                 d == DayValue(SubSeq(s, 7 + k, Len(s)))
             IN  IF IsDate(y, m, d) THEN [ok |-> TRUE, value |-> Date(y, m, d)]
                 ELSE [ok |-> FALSE]

(***************************************************************************)
(* server.py parse_date                                                    *)
(***************************************************************************)
InvalidDateFormat(date_str) ==
    [type |-> "ValueError",
     message |-> [text |-> "Invalid date format: {date_str}. Use YYYY-MM-DD",
                  arg |-> date_str]]

parse_date(date_str, now) ==
    IF date_str = None \/ date_str = <<>>
    THEN [ok |-> TRUE, value |-> now]
    ELSE LET parsed == strptime(date_str)
         IN  IF parsed.ok THEN parsed
             ELSE [ok |-> FALSE, exc |-> InvalidDateFormat(date_str)]

(***************************************************************************)
(* api_client.py: the cookie loader and the Account Client's constructor.  *)
(*                                                                         *)
(* os.getenv('MFP_COOKIES') is [set |-> FALSE] or [set |-> TRUE, text |-> t]*)
(* and a text is given by what json.loads makes of it:                     *)
(*   [json |-> "empty"]     the empty string                               *)
(*   [json |-> "invalid"]   no JSON document (JSONDecodeError)             *)
(*   [json |-> "array"], [json |-> "null"]   a document that is no object  *)
(*   [json |-> "object", members |-> <<[name, data], ...>>]                *)
(* and a member's data is [json |-> "number"] or                           *)
(*   [json |-> "object", has_value |-> BOOLEAN, domain |-> d] with d one   *)
(*   of "absent", "null", or a domain text.                                *)
(***************************************************************************)
NoJar == [kind |-> "None"]

DefaultDomain == ".myfitnesspal.com"

\* api_client.py:55-73, one Cookie(...) of the loop; data['value'] and
\* data.get('domain', '').startswith('.') may raise
MakeCookie(name, data) ==
    IF data.json # "object"
    THEN [ok |-> FALSE, exc |-> "TypeError"]
    ELSE IF ~data.has_value
    THEN [ok |-> FALSE, exc |-> "KeyError"]
    ELSE IF data.domain = "null"
    THEN [ok |-> FALSE, exc |-> "AttributeError"]
    ELSE [ok |-> TRUE,
          value |-> [name |-> name,
                     domain |-> IF data.domain = "absent" THEN DefaultDomain
                                ELSE data.domain,
                     domain_initial_dot |->
                         data.domain \in {".myfitnesspal.com"},
                     path |-> "/",
                     secure |-> FALSE]]

\* api_client.py:54-74, the loop over cookie_dict.items()
RECURSIVE FillJar(_, _)
\* jar.set_cookie(cookie), or the error of Cookie(...) ends the loop
SetCookie(members, cookies, made) ==
    IF made.ok THEN FillJar(Tail(members), Append(cookies, made.value))
    ELSE made

FillJar(members, cookies) ==
    IF members = <<>> THEN [ok |-> TRUE, value |-> cookies]
    ELSE SetCookie(members, cookies,
                   MakeCookie(Head(members).name, Head(members).data))

\* api_client.py:76-80: `return jar`, or the warning and `return None`
Loaded(filled) ==
    IF filled.ok
    THEN [jar |-> [kind |-> "CookieJar", cookies |-> filled.value], warned |-> 0]
    ELSE [jar |-> NoJar, warned |-> 1]

\* api_client.py:43-80: [jar |-> NoJar or a CookieJar, warned |-> 0 or 1]
_load_cookies_from_env(env) ==
    IF ~env.set \/ env.text.json = "empty"
    THEN [jar |-> NoJar, warned |-> 0]
    ELSE IF env.text.json # "object"
    THEN [jar |-> NoJar, warned |-> 1]
    ELSE Loaded(FillJar(env.text.members, <<>>))

\* `if cookiejar:` (api_client.py:36): None is false, and so is a CookieJar
\* that holds no cookie (CookieJar defines __len__)
Truthy(jar) == jar.kind = "CookieJar" /\ Len(jar.cookies) > 0

NoClient == [kind |-> "None"]

LoginError ==
    [type |-> "MyfitnesspalLoginError",
     message |-> [text |-> "no valid credentials", arg |-> <<>>]]

\* the source myfitnesspal.Client is given (api_client.py:36-41)
AuthSource(jar) == IF Truthy(jar) THEN "cookiejar" ELSE "browser"

\* api_client.py:36-41, after the cookies were loaded
Construct(loaded, credentials, n) ==
    IF credentials
    THEN [ok |-> TRUE, warned |-> loaded.warned, loaded |-> loaded.jar,
          auth |-> AuthSource(loaded.jar),
          value |-> [kind |-> "MyFitnessPalClient",
                     auth |-> AuthSource(loaded.jar),
                     cookiejar |-> IF Truthy(loaded.jar) THEN loaded.jar
                                   ELSE NoJar,
                     id |-> n]]
    ELSE [ok |-> FALSE, warned |-> loaded.warned, loaded |-> loaded.jar,
          auth |-> AuthSource(loaded.jar), exc |-> LoginError]

\* api_client.py:26-41.  credentials: whether myfitnesspal.Client finds a
\* valid session in the source it is given; n: the number of this
\* construction.
MyFitnessPalClient(env, credentials, n) ==
    Construct(_load_cookies_from_env(env), credentials, n)

\* server.py:42, `_client = MyFitnessPalClient()`: assigned unless it raised
Assigned(client, made) ==
    IF made.ok
    THEN [ok |-> TRUE, client |-> made.value, ran |-> 1, warned |-> made.warned,
          made |-> made]
    ELSE [ok |-> FALSE, client |-> client, ran |-> 1, warned |-> made.warned,
          made |-> made, exc |-> made.exc]

\* a get_client that constructs at every call
get_client_always(client, env, credentials, n) ==
    Assigned(client, MyFitnessPalClient(env, credentials, n + 1))

\* server.py:37-44.  [ok, client, ran (the constructor ran), warned, ...]
get_client(client, env, credentials, n) ==
    IF client = NoClient
    THEN Assigned(client, MyFitnessPalClient(env, credentials, n + 1))
    ELSE [ok |-> TRUE, client |-> client, ran |-> 0, warned |-> 0]

(***************************************************************************)
(* Rendering of numbers.  A quantity is kept as the quotient num / den of  *)
(* the integers the code divides; f"{x:.0f}" rounds it to the nearest      *)
(* integer, a tie to the even one.                                         *)
(***************************************************************************)
\* a rendering that cuts the fraction off
Truncate(num, den) == num \div den

RoundHalfEven(num, den) ==
    LET q == num \div den
        r == num % den
    IN  IF 2 * r < den THEN q
        ELSE IF 2 * r > den THEN q + 1
        ELSE IF q % 2 = 0 THEN q ELSE q + 1

\* server.py:90 and 347, `water_ml / 29.5735`, as 10000 * ml / 295735
OzDivisorE4 == 295735
\* server.py:91 and 348, `water_ml / 236.588`, as 1000 * ml / 236588
CupDivisorE3 == 236588
\* server.py:361, `(water_oz / 64) * 100`
RecommendedOz == 64

\* {water_oz:.0f}
WaterOz(water_ml) == RoundHalfEven(water_ml * 10000, OzDivisorE4)
\* {water_cups:.1f}, in tenths of a cup
WaterCupsTenths(water_ml) == RoundHalfEven(water_ml * 1000 * 10, CupDivisorE3)
\* {progress:.0f}: 100 * (10000 * ml / 295735) / 64, the 64 divided out of
\* the 1000000 to keep the product small
WaterProgress(water_ml) ==
    RoundHalfEven(water_ml * (1000000 \div RecommendedOz), OzDivisorE4)

\* dict.get(key, 0)
Get(map, key) == IF key \in DOMAIN map THEN map[key] ELSE 0

RECURSIVE SumSeq(_)
SumSeq(s) == IF s = <<>> THEN 0 ELSE Head(s) + SumSeq(Tail(s))

RECURSIVE Flatten(_)
Flatten(ss) == IF ss = <<>> THEN <<>> ELSE Head(ss) \o Flatten(Tail(ss))

(***************************************************************************)
(* The collaborator's Day.  Reading day.water goes through a property of   *)
(* the library that loads the value when asked and may raise; it is        *)
(* [ok |-> TRUE, value |-> ml] or [ok |-> FALSE, exc |-> the error].       *)
(***************************************************************************)
RequestFailed ==
    [type |-> "MyfitnesspalRequestFailed",
     message |-> [text |-> "request failed", arg |-> <<>>]]

Water(ml) == [ok |-> TRUE, value |-> ml]
WaterRaises == [ok |-> FALSE, exc |-> RequestFailed]

Nutrition(c, cb, f, p) ==
    [calories |-> c, carbohydrates |-> cb, fat |-> f, protein |-> p]

Food(name, c) ==
    [name |-> name, quantity |-> 1, unit |-> "servings",
     nutrition_information |-> Nutrition(c, 30, 10, 20)]

Meal(name, entries) ==
    [name |-> name, entries |-> entries,
     totals |-> [calories |->
                    SumSeq([i \in 1..Len(entries) |->
                               entries[i].nutrition_information.calories])]]

Activity(name, info) == [name |-> name, nutrition_information |-> info]

Exercise(name, entries) == [name |-> name, entries |-> entries]

Running == Activity("Running", ("minutes" :> 30) @@ ("calories burned" :> 300))
Squats == Activity("Squats", ("minutes" :> 0) @@ ("sets" :> 3))

DayA ==
    [totals |-> Nutrition(2000, 250, 70, 100) @@ ("sodium" :> 0),
     goals |-> Nutrition(2000, 250, 65, 120),
     water |-> Water(2000), complete |-> TRUE,
     meals |-> <<Meal("Breakfast", <<Food("Oats", 300)>>), Meal("Lunch", <<>>)>>,
     exercises |-> <<Exercise("Cardiovascular", <<Running>>),
                     Exercise("Strength", <<Squats>>)>>]

DayB ==
    [totals |-> Nutrition(2200, 300, 80, 90),
     goals |-> [calories |-> 2000, carbohydrates |-> 0],
     water |-> Water(1500), complete |-> FALSE,
     meals |-> <<>>,
     exercises |-> <<>>]

DayC ==
    [totals |-> Nutrition(1800, 200, 60, 110),
     goals |-> Nutrition(2000, 250, 65, 120),
     water |-> Water(1500), complete |-> TRUE,
     meals |-> <<Meal("Breakfast", <<Food("Eggs", 200)>>),
                 Meal("Dinner", <<Food("Rice", 400), Food("Fish", 300)>>)>>,
     exercises |-> <<Exercise("Cardiovascular", <<>>),
                     Exercise("Strength", <<>>)>>]

DayD ==
    [totals |-> [fat |-> 61],
     goals |-> [calories |-> 2000],
     water |-> WaterRaises, complete |-> FALSE,
     meals |-> <<>>,
     exercises |-> <<Exercise("Cardiovascular", <<>>)>>]

DayE ==
    [totals |-> Nutrition(1801, 201, 61, 111),
     goals |-> Nutrition(2000, 250, 65, 120),
     water |-> Water(0), complete |-> FALSE,
     meals |-> <<Meal("Snacks", <<>>)>>,
     exercises |-> <<Exercise("Cardiovascular", <<Running, Running>>)>>]

\* what the remote service holds for a date: any of these, at every fetch
DayPool == {DayA, DayB, DayC, DayD, DayE}

\* what one round trip gives: an error, or a Day of the pool
FetchOutcomes ==
    {[ok |-> FALSE, exc |-> RequestFailed]}
        \cup {[ok |-> TRUE, value |-> d] : d \in DayPool}

\* api_client.py:82-95: the Day of target_date, or the collaborator's error
get_day(fetched, target_date) ==
    IF fetched.ok
    THEN [ok |-> TRUE, value |-> [date |-> target_date] @@ fetched.value]
    ELSE fetched

(***************************************************************************)
(* server.py: the reports.  Each gives [ok |-> TRUE, value |-> the text]   *)
(* or [ok |-> FALSE, exc |-> the error raised while formatting].           *)
(***************************************************************************)
AllEntries(exercises) ==
    Flatten([i \in 1..Len(exercises) |-> exercises[i].entries])

Info(entries, key) ==
    SumSeq([i \in 1..Len(entries) |-> Get(entries[i].nutrition_information, key)])

\* server.py:73-132
DailySummaryReport(day, target_date) ==
    IF ~day.water.ok THEN [ok |-> FALSE, exc |-> day.water.exc]
    ELSE LET water_ml == day.water.value
             entries == AllEntries(day.exercises)
         IN  [ok |-> TRUE,
              value |->
                [form |-> "# Daily Summary for", date |-> target_date,
                 consumed |-> Get(day.totals, "calories"),
                 goal |-> Get(day.goals, "calories"),
                 remaining |-> Get(day.goals, "calories")
                                   - Get(day.totals, "calories"),
                 carbohydrates |-> <<Get(day.totals, "carbohydrates"),
                                     Get(day.goals, "carbohydrates")>>,
                 fat |-> <<Get(day.totals, "fat"), Get(day.goals, "fat")>>,
                 protein |-> <<Get(day.totals, "protein"),
                               Get(day.goals, "protein")>>,
                 activities |-> Len(entries),
                 duration |-> Info(entries, "minutes"),
                 burned |-> Info(entries, "calories burned"),
                 water_oz |-> WaterOz(water_ml),
                 water_cups |-> WaterCupsTenths(water_ml),
                 water_ml |-> water_ml,
                 complete |-> IF day.complete THEN "Yes" ELSE "No",
                 meals_logged |-> Len(day.meals)]]

\* server.py:160-186, one meal
MealLines(meal) ==
    [name |-> meal.name,
     total |-> Get(meal.totals, "calories"),
     macros |-> <<Get(meal.totals, "carbohydrates"), Get(meal.totals, "fat"),
                  Get(meal.totals, "protein")>>,
     foods |-> IF meal.entries # <<>>
               THEN [i \in 1..Len(meal.entries) |->
                       [name |-> meal.entries[i].name,
                        calories |->
                            Get(meal.entries[i].nutrition_information, "calories")]]
               ELSE <<[name |-> "No foods logged in this meal.", calories |-> 0]>>]

\* server.py:155-188
MealsReport(day, target_date) ==
    [ok |-> TRUE,
     value |-> [form |-> "# Meals for", date |-> target_date,
                none |-> IF day.meals = <<>> THEN "No meals logged for this day."
                         ELSE "",
                meals |-> [i \in 1..Len(day.meals) |-> MealLines(day.meals[i])]]]

\* server.py:208-252
ExerciseReport(day, target_date) ==
    LET all_entries == AllEntries(day.exercises)
    IN  [ok |-> TRUE,
         value |-> [form |-> "# Exercise for", date |-> target_date,
                    none |-> IF day.exercises = <<>> \/ all_entries = <<>>
                             THEN "No exercise logged for this day." ELSE "",
                    entries |-> [i \in 1..Len(all_entries) |-> all_entries[i].name],
                    total_minutes |-> Info(all_entries, "minutes"),
                    total_calories |-> Info(all_entries, "calories burned")]]

\* server.py:281-287, format_nutrient: "value / goal (percent)" or the bare value
format_nutrient(totals, goals, name) ==
    LET value == Get(totals, name)
        goal == Get(goals, name)
    IN  IF goal > 0
        THEN <<[name |-> name, value |-> value, goal |-> goal, bare |-> FALSE,
                percent |-> RoundHalfEven(value * 100, goal)]>>
        ELSE <<[name |-> name, value |-> value, goal |-> 0, bare |-> TRUE,
                percent |-> 0]>>

\* a gate on the stored value instead of the key
IfNonZero(totals, name, line) == IF Get(totals, name) # 0 THEN line ELSE <<>>

\* server.py:295-302 and 311-324: a line only if the key exists in totals
IfPresent(totals, name, line) == IF name \in DOMAIN totals THEN line ELSE <<>>

\* {value:.1f} of a fat sub-line, in tenths
FatLine(totals, name) ==
    <<[name |-> name, value |-> Get(totals, name) * 10, goal |-> 0,
       bare |-> TRUE, percent |-> 0]>>

FatKeys == <<"saturated fat", "polyunsaturated fat", "monounsaturated fat",
             "trans fat">>

MicroKeys == <<"sodium", "potassium", "cholesterol", "vitamin a", "vitamin c",
               "calcium", "iron">>

\* server.py:273-326
MacrosReport(day, target_date) ==
    LET totals == day.totals
        goals == day.goals
        N(name) == format_nutrient(totals, goals, name)
    IN  [ok |-> TRUE,
         value |->
           [form |-> "# Macros & Nutrients for", date |-> target_date,
            macronutrients |->
                N("calories") \o N("carbohydrates") \o N("protein") \o N("fat")
                \o Flatten([i \in 1..Len(FatKeys) |->
                       IfPresent(totals, FatKeys[i], FatLine(totals, FatKeys[i]))])
                \o N("fiber") \o N("sugar"),
            micronutrients |->
                Flatten([i \in 1..Len(MicroKeys) |->
                       IfPresent(totals, MicroKeys[i], N(MicroKeys[i]))])]]

\* server.py:346-364
WaterReport(day, target_date) ==
    IF ~day.water.ok THEN [ok |-> FALSE, exc |-> day.water.exc]
    ELSE LET water_ml == day.water.value
         IN  [ok |-> TRUE,
              value |->
                [form |-> "# Water Intake for", date |-> target_date,
                 none |-> IF water_ml > 0 THEN ""
                          ELSE "No water intake logged for this day.",
                 water_oz |-> IF water_ml > 0 THEN WaterOz(water_ml) ELSE 0,
                 water_cups |-> IF water_ml > 0 THEN WaterCupsTenths(water_ml)
                                ELSE 0,
                 water_ml |-> water_ml,
                 progress |-> IF water_ml > 0 THEN WaterProgress(water_ml)
                              ELSE 0]]

\* server.py:394-404, the snapshot appended for one yielded day
Snapshot(day) ==
    IF ~day.water.ok THEN [ok |-> FALSE, exc |-> day.water.exc]
    ELSE [ok |-> TRUE,
          value |-> [date |-> day.date,
                     calories |-> Get(day.totals, "calories"),
                     carbs |-> Get(day.totals, "carbohydrates"),
                     fat |-> Get(day.totals, "fat"),
                     protein |-> Get(day.totals, "protein"),
                     water_ml |-> day.water.value,
                     complete |-> day.complete,
                     num_meals |-> Len(day.meals),
                     num_exercises |-> Len(day.exercises)]]

Column(data, field) == [i \in 1..Len(data) |-> data[i][field]]

Count(data, P(_)) == Cardinality({i \in 1..Len(data) : P(data[i])})

\* server.py:410, num_days = len(daily_data)
NumDays(data, first, last) == Len(data)

\* server.py:438-455, one line of the daily breakdown
BreakdownLine(d) ==
    [date |-> d.date, calories |-> d.calories,
     macros |-> <<d.carbs, d.fat, d.protein>>,
     water_oz |-> WaterOz(d.water_ml),
     status |-> (IF d.complete THEN <<[mark |-> "complete", n |-> 1]>> ELSE <<>>)
                \o (IF d.num_exercises > 0
                    THEN <<[mark |-> "exercises", n |-> d.num_exercises]>>
                    ELSE <<>>)]

NoData == [form |-> "No data available for the specified date range."]

\* server.py:406-457
RangeReport(data, first, last) ==
    IF data = <<>> THEN NoData
    ELSE LET num_days == NumDays(data, first, last)
             IsComplete(d) == d.complete
             HasExercise(d) == d.num_exercises > 0
             complete_days == Count(data, IsComplete)
             days_with_exercise == Count(data, HasExercise)
         IN  [form |-> "# Date Range Summary", from |-> first, to |-> last,
              days |-> num_days,
              avg_calories |-> RoundHalfEven(SumSeq(Column(data, "calories")), num_days),
              avg_carbs |-> RoundHalfEven(SumSeq(Column(data, "carbs")), num_days),
              avg_fat |-> RoundHalfEven(SumSeq(Column(data, "fat")), num_days),
              avg_protein |-> RoundHalfEven(SumSeq(Column(data, "protein")), num_days),
              avg_water_oz |-> RoundHalfEven(SumSeq(Column(data, "water_ml")) * 10000,
                                             num_days * OzDivisorE4),
              avg_water_ml |-> RoundHalfEven(SumSeq(Column(data, "water_ml")), num_days),
              days_completed |-> <<complete_days, num_days,
                                   RoundHalfEven(complete_days * 100, num_days)>>,
              days_with_exercise |-> <<days_with_exercise, num_days,
                                   RoundHalfEven(days_with_exercise * 100, num_days)>>,
              breakdown |-> [i \in 1..Len(data) |-> BreakdownLine(data[i])]]

(***************************************************************************)
(* The failure boundary of a tool: try ... except Exception as e.          *)
(***************************************************************************)
\* utils.py:5-10
text_response(text) ==
    [kind |-> "ToolResult", type |-> "text", text |-> text,
     structured_content |-> "None"]

\* f"Error retrieving {subject}: {str(e)}"
ErrorText(subject, exc) ==
    [form |-> "Error retrieving", subject |-> subject, message |-> exc.message]

\* an except clause that catches ValueError only
OnlyValueError(type) == type = "ValueError"

\* every error the model raises is of a class derived from Exception
IsException(type) ==
    type \in {"ValueError", "OverflowError", "MyfitnesspalLoginError",
              "MyfitnesspalRequestFailed"}

\* a boundary that lets the constructor's error through as fatal
BoundaryLoginFatal(subject, outcome) ==
    IF outcome.ok THEN [kind |-> "ToolResult", type |-> "text",
                        text |-> outcome.value, structured_content |-> "None"]
    ELSE IF outcome.exc.type # "MyfitnesspalLoginError"
    THEN [kind |-> "ToolResult", type |-> "text",
          text |-> [form |-> "Error retrieving", subject |-> subject,
                    message |-> outcome.exc.message],
          structured_content |-> "None"]
    ELSE [kind |-> "raised", exc |-> outcome.exc]

\* what the tool gives its caller for the outcome of its try block
Boundary(subject, outcome) ==
    IF outcome.ok THEN text_response(outcome.value)
    ELSE IF IsException(outcome.exc.type)
    THEN text_response(ErrorText(subject, outcome.exc))
    ELSE [kind |-> "raised", exc |-> outcome.exc]

Subject(tool) ==
    CASE tool = "get_daily_summary" -> "daily summary"
      [] tool = "get_daily_meals" -> "meals"
      [] tool = "get_daily_exercise" -> "exercise"
      [] tool = "get_daily_macros" -> "macros"
      [] tool = "get_water_intake" -> "water intake"
      [] tool = "get_date_range_summary" -> "date range summary"

StartAfterEnd ==
    [type |-> "ValueError",
     message |-> [text |-> "Start date must be before or equal to end date",
                  arg |-> <<>>]]

(***************************************************************************)
(* The inputs.                                                             *)
(***************************************************************************)
Text_2023_12_31 == <<"2", "0", "2", "3", "-", "1", "2", "-", "3", "1">>
Text_2024_01_01 == <<"2", "0", "2", "4", "-", "0", "1", "-", "0", "1">>
Text_2024_01_03 == <<"2", "0", "2", "4", "-", "0", "1", "-", "0", "3">>
Text_2024_1_3 == <<"2", "0", "2", "4", "-", "1", "-", "3">>
Text_9999_12_31 == <<"9", "9", "9", "9", "-", "1", "2", "-", "3", "1">>
Text_03_15_2024 == <<"0", "3", "/", "1", "5", "/", "2", "0", "2", "4">>

\* the date argument of a single-day tool (Optional[str])
ToolDates == {None, <<>>, Text_2024_01_03, Text_2024_1_3, Text_03_15_2024,
              Text_9999_12_31}

\* the two date arguments of get_date_range_summary (str)
RangeDates == {<<>>, Text_2023_12_31, Text_2024_01_01, Text_2024_01_03,
               Text_9999_12_31, Text_03_15_2024}

Todays == {Date(2024, 1, 2)}

GoodCookie == [json |-> "object", has_value |-> TRUE, domain |-> "absent"]
DotCookie == [json |-> "object", has_value |-> TRUE, domain |-> ".myfitnesspal.com"]
HostCookie == [json |-> "object", has_value |-> TRUE, domain |-> "www.myfitnesspal.com"]
NoValueCookie == [json |-> "object", has_value |-> FALSE, domain |-> "absent"]
NullDomainCookie == [json |-> "object", has_value |-> TRUE, domain |-> "null"]
NumberCookie == [json |-> "number"]

CookieData == {GoodCookie, DotCookie, HostCookie, NoValueCookie,
               NullDomainCookie, NumberCookie}

CookieNames == <<"a", "b", "c", "d", "e">>

Unset == [set |-> FALSE]
EnvText(t) == [set |-> TRUE, text |-> t]
Mapping(datas) ==
    EnvText([json |-> "object",
             members |-> [i \in 1..Len(datas) |->
                             [name |-> CookieNames[i], data |-> datas[i]]]])

\* every MFP_COOKIES the cookie loader is applied to
EnvValues ==
    {Unset, EnvText([json |-> "empty"]), EnvText([json |-> "invalid"]),
     EnvText([json |-> "array"]), EnvText([json |-> "null"])}
        \cup {Mapping(ds) : ds \in UNION {[1..n -> CookieData] : n \in 0..MaxCookies}}

\* the MFP_COOKIES of the server processes followed through tool calls
ServerEnvValues ==
    {Unset, Mapping(<<GoodCookie>>), Mapping(<<GoodCookie, NoValueCookie>>)}

NoDate == Date(0, 0, 0)
NoDay == [kind |-> "None"]
NoCall == [tool |-> "None", args |-> <<>>]
NoResponse == [kind |-> "None"]

(***************************************************************************)
(* The server process.                                                     *)
(***************************************************************************)
\* no client yet, no tool invocation in progress
Quiet ==
    /\ _client = NoClient
    /\ constructions = 0
    /\ warnings = 0
    /\ pc = "idle"
    /\ call = NoCall
    /\ start = NoDate
    /\ end = NoDate
    /\ current = NoDate
    /\ yielded = NoDay
    /\ daily_data = <<>>
    /\ fetches = <<>>
    /\ events = <<>>
    /\ response = NoResponse

NotApplied == [applied |-> FALSE]
Applied(value) == [applied |-> TRUE, value |-> value]

Init ==
    /\ today \in Todays
    /\ environ \in ServerEnvValues
    /\ Quiet
    /\ arg = None
    /\ ret = NotApplied

Raise(exc) == [ok |-> FALSE, exc |-> exc]

\* the report each single-day tool makes of the fetched Day
Report(tool, day, target_date) ==
    CASE tool = "get_daily_summary" -> DailySummaryReport(day, target_date)
      [] tool = "get_daily_meals" -> MealsReport(day, target_date)
      [] tool = "get_daily_exercise" -> ExerciseReport(day, target_date)
      [] tool = "get_daily_macros" -> MacrosReport(day, target_date)
      [] tool = "get_water_intake" -> WaterReport(day, target_date)

\* what a run of a try block leaves: its outcome, the client, whether the
\* constructor ran and warned, the round trips and the events
Ran(outcome, got, fetched, what) ==
    [outcome |-> outcome, client |-> got.client, ran |-> got.ran,
     warned |-> got.warned, fetches |-> fetched, events |-> what]

Constructed(got) == IF got.ran = 1 THEN <<"construct">> ELSE <<>>

\* the report is made and returned (server.py:73-134 and its likes)
Reported(target, got, report) ==
    Ran(report, got, <<[date |-> target.value, ok |-> TRUE]>>,
        <<"parse">> \o Constructed(got) \o <<"fetch">>
            \o (IF report.ok THEN <<>> ELSE <<"format_error">>))

\* day = client.get_day(target_date) (server.py:71)
Fetched(tool, target, got, day) ==
    IF ~day.ok
    THEN Ran(day, got, <<[date |-> target.value, ok |-> FALSE]>>,
             <<"parse">> \o Constructed(got) \o <<"fetch_error">>)
    ELSE Reported(target, got, Report(tool, day.value, target.value))

\* client = get_client() (server.py:68)
GotClient(tool, target, got, fetched) ==
    IF ~got.ok
    THEN Ran(Raise(got.exc), got, <<>>, <<"parse", "construct_error">>)
    ELSE Fetched(tool, target, got, get_day(fetched, target.value))

\* a tool that gets its client before it looks at the date
ClientBeforeParse(tool, target, credentials, fetched) ==
    IF ~target.ok
    THEN Ran(target, get_client(_client, environ, credentials, constructions),
             <<>>, <<"parse_error">>)
    ELSE GotClient(tool, target,
                   get_client(_client, environ, credentials, constructions),
                   fetched)

\* target_date = parse_date(date) (server.py:67)
Parsed(tool, target, credentials, fetched) ==
    IF ~target.ok
    THEN Ran(target, [client |-> _client, ran |-> 0, warned |-> 0], <<>>,
             <<"parse_error">>)
    ELSE GotClient(tool, target,
                   get_client(_client, environ, credentials, constructions),
                   fetched)

\* the try block of a single-day tool (server.py:67-134 and its likes):
\* parse_date, get_client, client.get_day, the report
RunSingleDay(tool, date, credentials, fetched) ==
    Parsed(tool, parse_date(date, today), credentials, fetched)

\* the tool returns: the text of the report, or of the error caught
Return(tool, date, run) ==
    /\ pc = "idle"
    /\ constructions + run.ran <= MaxConstructions
    /\ pc' = "done"
    /\ call' = [tool |-> tool, args |-> <<date>>]
    /\ _client' = run.client
    /\ constructions' = constructions + run.ran
    /\ warnings' = warnings + run.warned
    /\ fetches' = run.fetches
    /\ events' = run.events
    /\ response' = Boundary(Subject(tool), run.outcome)
    /\ UNCHANGED <<today, environ, start, end, current, yielded,
                   daily_data, arg, ret>>

SingleDay(tool, date, credentials, fetched) ==
    Return(tool, date, RunSingleDay(tool, date, credentials, fetched))

\* server.py:58-137
get_daily_summary ==
    \E date \in ToolDates, credentials \in BOOLEAN, fetched \in FetchOutcomes :
        SingleDay("get_daily_summary", date, credentials, fetched)

\* server.py:140-191
get_daily_meals ==
    \E date \in ToolDates, credentials \in BOOLEAN, fetched \in FetchOutcomes :
        SingleDay("get_daily_meals", date, credentials, fetched)

\* server.py:194-255
get_daily_exercise ==
    \E date \in ToolDates, credentials \in BOOLEAN, fetched \in FetchOutcomes :
        SingleDay("get_daily_exercise", date, credentials, fetched)

\* server.py:258-329
get_daily_macros ==
    \E date \in ToolDates, credentials \in BOOLEAN, fetched \in FetchOutcomes :
        SingleDay("get_daily_macros", date, credentials, fetched)

\* server.py:332-367
get_water_intake ==
    \E date \in ToolDates, credentials \in BOOLEAN, fetched \in FetchOutcomes :
        SingleDay("get_water_intake", date, credentials, fetched)

RangeSubject == Subject("get_date_range_summary")

\* a tool without the validation of the range
NeverAfter(first, last) == FALSE

\* server.py:383, `if start > end`
StartAfterEndDate(first, last) == DateLess(last, first)

\* the tool's except clause is reached: the generator, if any, is dropped
Fail(exc, event) ==
    /\ pc' = "done"
    /\ response' = Boundary(RangeSubject, Raise(exc))
    /\ events' = Append(events, event)
    /\ yielded' = NoDay

\* server.py:371-391: both dates are parsed, the range is validated, the
\* client is got and the generator of client.get_date_range(start, end) made
get_date_range_summary ==
    \E start_date \in RangeDates, end_date \in RangeDates, credentials \in BOOLEAN :
        LET first == parse_date(start_date, today)
            last == parse_date(end_date, today)
            got == get_client(_client, environ, credentials, constructions)
            valid == first.ok /\ last.ok /\ ~StartAfterEndDate(first.value, last.value)
        IN  /\ pc = "idle"
            /\ valid => /\ constructions + got.ran <= MaxConstructions
                        /\ ToOrdinal(last.value) - ToOrdinal(first.value) < MaxRange
            /\ call' = [tool |-> "get_date_range_summary",
                        args |-> <<start_date, end_date>>]
            /\ fetches' = <<>>
            /\ daily_data' = <<>>
            /\ yielded' = NoDay
            /\ UNCHANGED <<today, environ, arg, ret>>
            /\ IF ~first.ok \/ ~last.ok
               THEN /\ pc' = "done"
                    /\ response' = Boundary(RangeSubject,
                                        IF ~first.ok THEN first ELSE last)
                    /\ events' = <<"parse_error">>
                    /\ UNCHANGED <<_client, constructions, warnings, start, end,
                                   current>>
               ELSE IF StartAfterEndDate(first.value, last.value)
               THEN /\ pc' = "done"
                    /\ response' = Boundary(RangeSubject, Raise(StartAfterEnd))
                    /\ events' = <<"parse", "validation_error">>
                    /\ start' = first.value
                    /\ end' = last.value
                    /\ UNCHANGED <<_client, constructions, warnings, current>>
               ELSE /\ start' = first.value
                    /\ end' = last.value
                    /\ _client' = got.client
                    /\ constructions' = constructions + got.ran
                    /\ warnings' = warnings + got.warned
                    /\ IF ~got.ok
                       THEN /\ pc' = "done"
                            /\ response' = Boundary(RangeSubject, Raise(got.exc))
                            /\ events' = <<"parse", "validate", "construct_error">>
                            /\ UNCHANGED current
                       ELSE /\ pc' = "test"
                            /\ current' = first.value
                            /\ response' = NoResponse
                            /\ events' = <<"parse", "validate">>
                                   \o (IF got.ran = 1 THEN <<"construct">> ELSE <<>>)

\* api_client.py:104-109: the loop test holds and the day is fetched; the
\* Day is yielded, or the error is swallowed
get_date_range_fetch ==
    \E fetched \in FetchOutcomes :
        LET day == get_day(fetched, current)
        IN  /\ pc = "test"
            /\ DateLeq(current, end)
            /\ fetches' = Append(fetches, [date |-> current, ok |-> day.ok])
            /\ IF day.ok
               THEN /\ pc' = "yielded"
                    /\ yielded' = day.value
                    /\ events' = Append(events, "fetch")
               ELSE /\ pc' = "skipped"
                    /\ yielded' = NoDay
                    /\ events' = Append(events, "fetch_error")
            /\ UNCHANGED <<today, environ, _client, constructions, warnings,
                           call, start, end, current, daily_data, response,
                           arg, ret>>

\* server.py:391-404: the body of the for loop, run on the yielded Day
collect_day ==
    LET snapshot == Snapshot(yielded)
    IN  /\ pc = "yielded"
        /\ IF snapshot.ok
           THEN /\ daily_data' = Append(daily_data, snapshot.value)
                /\ pc' = "resumed"
                /\ yielded' = NoDay
                /\ UNCHANGED <<response, events>>
           ELSE /\ Fail(snapshot.exc, "format_error")
                /\ UNCHANGED daily_data
        /\ UNCHANGED <<today, environ, _client, constructions, warnings, call,
                       start, end, current, fetches, arg, ret>>

\* api_client.py:110: current = current + timedelta(days=1), after the yield
\* is resumed or the error swallowed; it is outside the try
get_date_range_advance ==
    LET next == PlusOneDay(current)
    IN  /\ pc \in {"resumed", "skipped"}
        /\ IF next.ok
           THEN /\ current' = next.value
                /\ pc' = "test"
                /\ UNCHANGED <<response, events, yielded>>
           ELSE /\ Fail(next.exc, "overflow_error")
                /\ UNCHANGED current
        /\ UNCHANGED <<today, environ, _client, constructions, warnings, call,
                       start, end, daily_data, fetches, arg, ret>>

\* api_client.py:104 and server.py:406-457: the loop test fails, the
\* generator is exhausted and the summary is made of daily_data
summarize ==
    /\ pc = "test"
    /\ ~DateLeq(current, end)
    /\ pc' = "done"
    /\ response' = Boundary(RangeSubject,
                        [ok |-> TRUE, value |-> RangeReport(daily_data, start, end)])
    /\ events' = Append(events, "exhausted")
    /\ UNCHANGED <<today, environ, _client, constructions, warnings, call,
                   start, end, current, yielded, daily_data, fetches, arg, ret>>

\* the protocol runtime sends the tool's result; the next call may come
Deliver ==
    /\ pc = "done"
    /\ pc' = "idle"
    /\ call' = NoCall
    /\ start' = NoDate
    /\ end' = NoDate
    /\ current' = NoDate
    /\ yielded' = NoDay
    /\ daily_data' = <<>>
    /\ fetches' = <<>>
    /\ events' = <<>>
    /\ response' = NoResponse
    /\ UNCHANGED <<today, environ, _client, constructions, warnings, arg, ret>>

Next ==
    \/ get_daily_summary
    \/ get_daily_meals
    \/ get_daily_exercise
    \/ get_daily_macros
    \/ get_water_intake
    \/ get_date_range_summary
    \/ get_date_range_fetch
    \/ collect_day
    \/ get_date_range_advance
    \/ summarize
    \/ Deliver

Spec == Init /\ [][Next]_vars

(***************************************************************************)
(* parse_date applied on its own to a wide set of texts.                   *)
(***************************************************************************)
YearTexts == {<<"2", "0", "2", "4">>, <<"2", "0", "2", "3">>,
              <<"9", "9", "9", "9">>, <<"0", "0", "0", "0">>, <<"2", "4">>}
Separators == {<<"-">>, <<"/">>}
MonthTexts == {<<"1">>, <<"0", "1">>, <<"2">>, <<"0", "2">>, <<"3">>,
               <<"0", "3">>, <<"1", "2">>, <<"1", "3">>, <<"0">>, <<"0", "0">>}
DayTexts == {<<"5">>, <<"0", "5">>, <<" ", "5">>, <<"1", "5">>, <<"2", "9">>,
             <<"3", "0">>, <<"3", "1">>, <<"3", "2">>, <<"0">>, <<"0", "0">>}
Tails == {<<>>, <<" ">>, <<"1">>}

DateTexts ==
    {None, <<>>, Text_03_15_2024}
        \cup {y \o a \o m \o b \o d \o t :
                 y \in YearTexts, a \in Separators, m \in MonthTexts,
                 b \in Separators, d \in DayTexts, t \in Tails}

ParseTodays == {Date(2024, 1, 2), Date(2024, 2, 29), Date(9999, 12, 31)}

InitParse ==
    /\ today \in ParseTodays
    /\ environ = Unset
    /\ Quiet
    /\ arg \in DateTexts
    /\ ret = NotApplied

ApplyParseDate ==
    /\ ret = NotApplied
    /\ ret' = Applied(parse_date(arg, today))
    /\ UNCHANGED <<today, environ, _client, constructions, warnings, pc, call,
                   start, end, current, yielded, daily_data, fetches, events,
                   response, arg>>

NextParse == ApplyParseDate

SpecParse == InitParse /\ [][NextParse]_vars

(***************************************************************************)
(* get_client() called on its own under every MFP_COOKIES of EnvValues.    *)
(***************************************************************************)
InitCookies ==
    /\ today \in Todays
    /\ environ \in EnvValues
    /\ Quiet
    /\ arg = None
    /\ ret = NotApplied

\* ret keeps what the constructor made of the environment
Remember(got) ==
    /\ _client' = got.client
    /\ constructions' = constructions + got.ran
    /\ warnings' = warnings + got.warned
    /\ ret' = Applied([loaded |-> got.made.loaded, auth |-> got.made.auth,
                        warned |-> got.made.warned, ok |-> got.ok])

CallGetClient ==
    \E credentials \in BOOLEAN :
        /\ _client = NoClient
        /\ constructions < MaxConstructions
        /\ Remember(get_client(_client, environ, credentials, constructions))
        /\ UNCHANGED <<today, environ, pc, call, start, end, current, yielded,
                       daily_data, fetches, events, response, arg>>

NextCookies == CallGetClient

SpecCookies == InitCookies /\ [][NextCookies]_vars

(***************************************************************************)
(* The two reports that render water, applied to a Day of every amount.    *)
(***************************************************************************)
WaterAmounts == 0..MaxWater

InitWater ==
    /\ today \in Todays
    /\ environ = Unset
    /\ Quiet
    /\ arg \in WaterAmounts
    /\ ret = NotApplied

DayWithWater(ml) == [date |-> today] @@ [DayC EXCEPT !.water = Water(ml)]

Render(tool) ==
    /\ ret = NotApplied
    /\ ret' = Applied([tool |-> tool,
                        text |-> Report(tool, DayWithWater(arg), today).value])
    /\ UNCHANGED <<today, environ, _client, constructions, warnings, pc, call,
                   start, end, current, yielded, daily_data, fetches, events,
                   response, arg>>

RenderDailySummary == Render("get_daily_summary")

RenderWaterIntake == Render("get_water_intake")

NextWater == RenderDailySummary \/ RenderWaterIntake

SpecWater == InitWater /\ [][NextWater]_vars

(***************************************************************************)
(* get_daily_macros applied to totals and goals that hold, lack, or hold   *)
(* as zero one nutrient of each kind.                                      *)
(***************************************************************************)
MacroKeys == {"calories", "carbohydrates", "protein", "fat", "fiber", "sugar"}

Lacking == [present |-> FALSE]
Holding(amount) == [present |-> TRUE, amount |-> amount]

TotalChoices == {Lacking, Holding(0), Holding(150)}
GoalChoices == {Lacking, Holding(0), Holding(200)}

NoEntries == [k \in {} |-> 0]

Entry(key, choice) ==
    IF choice.present THEN key :> choice.amount ELSE NoEntries

\* day.totals or day.goals with one macronutrient, one fat and one
\* micronutrient column
Columns(mk, m, fk, f, uk, u) == Entry(mk, m) @@ Entry(fk, f) @@ Entry(uk, u)

Range(seq) == {seq[i] : i \in 1..Len(seq)}

InitMacros ==
    /\ today \in Todays
    /\ environ = Unset
    /\ Quiet
    /\ \E mk \in MacroKeys, fk \in Range(FatKeys), uk \in Range(MicroKeys) :
          \E tm, tf, tu \in TotalChoices, gm, gf, gu \in GoalChoices :
              arg = [totals |-> Columns(mk, tm, fk, tf, uk, tu),
                     goals |-> Columns(mk, gm, fk, gf, uk, gu)]
    /\ ret = NotApplied

RenderMacros ==
    /\ ret = NotApplied
    /\ ret' = Applied(Report("get_daily_macros", [date |-> today] @@ arg,
                              today).value)
    /\ UNCHANGED <<today, environ, _client, constructions, warnings, pc, call,
                   start, end, current, yielded, daily_data, fetches, events,
                   response, arg>>

NextMacros == RenderMacros

SpecMacros == InitMacros /\ [][NextMacros]_vars

(***************************************************************************)
(* The properties.                                                         *)
(***************************************************************************)
Has(seq, e) == \E i \in 1..Len(seq) : seq[i] = e

RangeTool == "get_date_range_summary"

\* the subject each tool names in its error text
OwnSubject ==
    [get_daily_summary |-> "daily summary", get_daily_meals |-> "meals",
     get_daily_exercise |-> "exercise", get_daily_macros |-> "macros",
     get_water_intake |-> "water intake",
     get_date_range_summary |-> "date range summary"]

IsText(r) == r.kind = "ToolResult" /\ r.type = "text"

IsErrorText(r, subject) ==
    /\ IsText(r)
    /\ r.text.form = "Error retrieving"
    /\ r.text.subject = subject

\* the failures that end a try block
BoundaryEvents == {"parse_error", "validation_error", "construct_error",
                   "format_error", "overflow_error"}

\* a failure was raised in the tool's try block and not caught below it
ReachedBoundary ==
    \/ \E e \in BoundaryEvents : Has(events, e)
    \/ call.tool # RangeTool /\ Has(events, "fetch_error")

\* a failure was raised anywhere during the invocation
AnyFailure == ReachedBoundary \/ Has(events, "fetch_error")

\* the message of the error that ended the try block
RaisedMessage ==
    IF Has(events, "parse_error")
    THEN {InvalidDateFormat(call.args[i]).message : i \in 1..Len(call.args)}
    ELSE IF Has(events, "validation_error") THEN {StartAfterEnd.message}
    ELSE IF Has(events, "construct_error") THEN {LoginError.message}
    ELSE IF Has(events, "overflow_error")
    THEN {[text |-> "date value out of range", arg |-> <<>>]}
    ELSE {RequestFailed.message}

\* C1 as stated: every invocation returns a text, and whenever a failure was
\* raised during it (a day's fetch failure inside the ranged fetch included)
\* the text is "Error retrieving <subject>: <message>" with the tool's subject.
C1_ErrorTextOnAnyFailure ==
    pc = "done" =>
        /\ IsText(response)
        /\ AnyFailure => IsErrorText(response, OwnSubject[call.tool])

\* C1 amended: no invocation raises out of its tool; it returns a text, and
\* that text is "Error retrieving <subject>: <message>", with the tool's own
\* subject and the error's message, exactly when a failure reached the
\* tool's try block, which is every failure but a day's fetch failure inside
\* the ranged fetch: get_date_range swallows that one.
C1_ErrorTextAtBoundary ==
    /\ pc # "done" => response = NoResponse
    /\ pc = "done" =>
        /\ IsText(response)
        /\ ReachedBoundary =>
              /\ IsErrorText(response, OwnSubject[call.tool])
              /\ response.text.message \in RaisedMessage
        /\ ~ReachedBoundary => response.text.form # "Error retrieving"

\* a single-day tool whose fetch raised has returned its error text
C1_Witness ==
    /\ pc = "done"
    /\ call.tool = "get_daily_exercise"
    /\ Has(events, "fetch_error")
    /\ IsErrorText(response, "exercise")

IsOk(f) == f.ok

\* the dates of the round trips that gave a Day
OkDates(f) == Column(SelectSeq(f, IsOk), "date")

\* the dates of the Days the generator has yielded so far
YieldedDates ==
    Column(daily_data, "date")
        \o (IF pc = "yielded" THEN <<yielded.date>> ELSE <<>>)

\* the generator ran to its end
GeneratorEnded == Has(events, "exhausted") \/ Has(events, "overflow_error")

RangeLength == ToOrdinal(end) - ToOrdinal(start) + 1

\* C2: get_date_range asks for the dates start, start + 1, ... in turn, up to
\* end and no further; the Days it yields are those of the dates whose fetch
\* succeeded, each once and in ascending order; a date whose fetch raises is
\* skipped and the dates after it are still fetched.
C2_RangeYieldsSucceededDays ==
    call.tool = RangeTool =>
        /\ \A i \in 1..Len(fetches) :
              ToOrdinal(fetches[i].date) = ToOrdinal(start) + i - 1
        /\ fetches # <<>> => Len(fetches) <= RangeLength
        /\ ~Has(events, "format_error") => YieldedDates = OkDates(fetches)
        /\ GeneratorEnded => Len(fetches) = RangeLength

\* 2024-01-01..2024-01-03 with 01-02 failing has yielded 01-01 then 01-03
C2_Witness ==
    /\ pc = "done"
    /\ call.tool = RangeTool
    /\ start = Date(2024, 1, 1)
    /\ end = Date(2024, 1, 3)
    /\ Column(fetches, "ok") = <<TRUE, FALSE, TRUE>>
    /\ Column(daily_data, "date") = <<Date(2024, 1, 1), Date(2024, 1, 3)>>
    /\ Has(events, "exhausted")

\* C3: in a ranged fetch the dates asked for are strictly ascending, so none
\* is asked for twice; and a date is asked for only when every earlier date
\* is settled: its Day collected by the consumer, or its failure skipped.
C3_AscendingOnDemand ==
    call.tool = RangeTool =>
        /\ \A i \in 1..(Len(fetches) - 1) :
              DateLess(fetches[i].date, fetches[i + 1].date)
        /\ ~Has(events, "format_error") =>
              Len(OkDates(fetches)) =
                  Len(daily_data) + (IF pc = "yielded" THEN 1 ELSE 0)
        /\ pc = "test" => \A i \in 1..Len(fetches) :
                              DateLess(fetches[i].date, current)
        /\ pc \in {"yielded", "skipped", "resumed"} =>
              /\ fetches # <<>>
              /\ fetches[Len(fetches)].date = current

\* the third date is handed over after the first was collected and the
\* second skipped
C3_Witness ==
    /\ pc = "yielded"
    /\ Column(fetches, "ok") = <<TRUE, FALSE, TRUE>>
    /\ Len(daily_data) = 1
    /\ yielded.date = current

\* C4 as stated: get_client runs the constructor at most one time.
C4_ConstructorRunsAtMostOnce == constructions <= 1

\* C4 amended: the constructor succeeds at most once in a server process:
\* once _client is set, every later invocation reuses that instance and the
\* constructor does not run again.  While _client is unset, because no call
\* came yet or every construction so far failed, each invocation that
\* reaches get_client runs the constructor again.
C4_ClientKeptOnceSet ==
    [][_client # NoClient =>
          /\ _client' = _client
          /\ constructions' = constructions]_vars

\* an invocation fetched with the client an earlier invocation constructed
C4_Witness ==
    /\ pc = "done"
    /\ _client # NoClient
    /\ _client.id = constructions
    /\ Has(events, "fetch")
    /\ ~Has(events, "construct")

\* C5 as stated: no tool invocation returns an "Error retrieving ..." text
\* whose cause is the client constructor failing.
C5_NoErrorTextFromConstructor ==
    ~(/\ pc = "done"
      /\ Has(events, "construct_error")
      /\ IsText(response)
      /\ response.text.form = "Error retrieving")

\* C5 amended: the Account Client is constructed inside the first tool
\* invocation that needs it, so a failure to find valid credentials is a
\* per-tool error: the invocation returns "Error retrieving <subject>:
\* <message>" with the constructor's message, issues no fetch and leaves
\* _client unset, and the server goes on serving calls.
C5_ConstructorFailureIsToolError ==
    pc = "done" /\ Has(events, "construct_error") =>
        /\ IsErrorText(response, OwnSubject[call.tool])
        /\ response.text.message = LoginError.message
        /\ _client = NoClient
        /\ fetches = <<>>

\* get_daily_summary ended on the constructor's failure
C5_Witness ==
    /\ pc = "done"
    /\ call.tool = "get_daily_summary"
    /\ Has(events, "construct_error")
    /\ IsErrorText(response, "daily summary")

\* the range tool was called with dates that parse, the start after the end
CalledStartAfterEnd ==
    /\ call.tool = RangeTool
    /\ parse_date(call.args[1], today).ok
    /\ parse_date(call.args[2], today).ok
    /\ DateLess(parse_date(call.args[2], today).value,
                parse_date(call.args[1], today).value)

\* C6: get_date_range_summary called with a start date after the end date
\* ends with the validation error before any fetch: no round trip is made in
\* that call, and the response is the text "Error retrieving date range
\* summary: Start date must be before or equal to end date".
C6_ValidationBeforeFetch ==
    CalledStartAfterEnd =>
        /\ pc = "done"
        /\ fetches = <<>>
        /\ ~Has(events, "fetch") /\ ~Has(events, "fetch_error")
        /\ IsErrorText(response, "date range summary")
        /\ response.text.message = StartAfterEnd.message

\* the range tool ended on the validation error
C6_Witness ==
    /\ pc = "done"
    /\ call.tool = RangeTool
    /\ events = <<"parse", "validation_error">>
    /\ DateLess(end, start)

Mean(data, field) == RoundHalfEven(SumSeq(Column(data, field)), Len(data))

Percent(k, n) == RoundHalfEven(k * 100, n)

CompleteDays(data) == Cardinality({i \in 1..Len(data) : data[i].complete})

ExerciseDays(data) ==
    Cardinality({i \in 1..Len(data) : data[i].num_exercises > 0})

\* the summary of the yielded days, every denominator their number
SummaryOfYielded(text, data) ==
    /\ text.form = "# Date Range Summary"
    /\ text.days = Len(data)
    /\ text.avg_calories = Mean(data, "calories")
    /\ text.avg_carbs = Mean(data, "carbs")
    /\ text.avg_fat = Mean(data, "fat")
    /\ text.avg_protein = Mean(data, "protein")
    /\ text.avg_water_ml = Mean(data, "water_ml")
    /\ text.avg_water_oz =
           RoundHalfEven(SumSeq(Column(data, "water_ml")) * 10000,
                         Len(data) * OzDivisorE4)
    /\ text.days_completed =
           <<CompleteDays(data), Len(data), Percent(CompleteDays(data), Len(data))>>
    /\ text.days_with_exercise =
           <<ExerciseDays(data), Len(data), Percent(ExerciseDays(data), Len(data))>>

\* C7: when the ranged fetch of get_date_range_summary has run over the
\* whole range, the day count, the averages and both tracking percentages of
\* the response have the number of yielded days as denominator, and with
\* zero days yielded the response is "No data available for the specified
\* date range." and not an error text.
C7_DenominatorIsYieldedDays ==
    pc = "done" /\ call.tool = RangeTool /\ GeneratorEnded =>
        /\ IsText(response)
        /\ IF daily_data = <<>> THEN response.text = NoData
           ELSE SummaryOfYielded(response.text, daily_data)

\* what holds of the code: C7 for the ranges whose generator is exhausted,
\* which are those that do not end on date.max
C7_WhenExhausted ==
    pc = "done" /\ call.tool = RangeTool /\ Has(events, "exhausted") =>
        /\ IsText(response)
        /\ IF daily_data = <<>> THEN response.text = NoData
           ELSE SummaryOfYielded(response.text, daily_data)

\* the member is an object with a 'value' and a domain that is no null
WellFormed(data) ==
    /\ data.json = "object"
    /\ data.has_value
    /\ data.domain # "null"

\* MFP_COOKIES is present and parses into a cookie store
ParsesSuccessfully(env) ==
    /\ env.set
    /\ env.text.json = "object"
    /\ \A i \in 1..Len(env.text.members) : WellFormed(env.text.members[i].data)

Malformed(env) ==
    /\ env.set
    /\ env.text.json # "empty"
    /\ ~ParsesSuccessfully(env)

\* C8: the constructor uses the reconstructed cookie store exactly when
\* MFP_COOKIES is present and parses successfully; in every other case the
\* loader returns nothing, the browser session is used, and one warning is
\* printed if the input was malformed and none if it was absent or empty.
C8_CookieStoreIffParsed ==
    ret.applied =>
        /\ ret.value.auth = "cookiejar" <=> ParsesSuccessfully(environ)
        /\ ~ParsesSuccessfully(environ) => ret.value.loaded = NoJar
        /\ ret.value.warned = (IF Malformed(environ) THEN 1 ELSE 0)

\* what holds of the code: C8 but for a mapping without entries
C8_ExceptEmptyMapping ==
    ret.applied =>
        /\ ret.value.auth = "cookiejar" <=>
              ParsesSuccessfully(environ) /\ environ.text.members # <<>>
        /\ ~ParsesSuccessfully(environ) => ret.value.loaded = NoJar
        /\ ret.value.warned = (IF Malformed(environ) THEN 1 ELSE 0)

Absent(text) == text = None \/ text = <<>>

AllDigits(t) == \A i \in 1..Len(t) : t[i] \in Digits

\* exactly YYYY-MM-DD: four, two and two digits
ExactPattern(text) ==
    /\ Len(text) = 10
    /\ text[5] = "-" /\ text[8] = "-"
    /\ AllDigits(SubSeq(text, 1, 4))
    /\ AllDigits(SubSeq(text, 6, 7))
    /\ AllDigits(SubSeq(text, 9, 10))

\* a day field: one or two digits, or a space and a digit
DayField(t) ==
    \/ Len(t) \in {1, 2} /\ AllDigits(t)
    \/ Len(t) = 2 /\ t[1] = " " /\ t[2] \in Digits

\* the dates a text denotes as Y-M-D: a year of four digits, a month of one
\* or two digits, a day field, the three naming a date of the calendar
Shaped(text, j) ==
    /\ Len(text) > j
    /\ Len(text) <= j + 2
    /\ AllDigits(SubSeq(text, 1, 4))
    /\ text[5] = "-" /\ text[j] = "-"
    /\ j > 6
    /\ AllDigits(SubSeq(text, 6, j - 1))
    /\ DayField(SubSeq(text, j + 1, Len(text)))

FieldsOf(text, j) ==
    [year  |-> IntOf(SubSeq(text, 1, 4)),
     month |-> IntOf(SubSeq(text, 6, j - 1)),
     day   |-> IntOf(SelectSeq(SubSeq(text, j + 1, Len(text)),
                               LAMBDA c : c # " "))]

OnCalendar(dt) ==
    /\ dt.year >= MINYEAR
    /\ dt.month \in 1..12
    /\ dt.day >= 1
    /\ dt.day <= DaysInMonth(dt.year, dt.month)

Denoted(text) ==
    {dt \in {FieldsOf(text, j) : j \in {k \in {7, 8} : Shaped(text, k)}} :
        OnCalendar(dt)}

CarriesText(exc, text) ==
    /\ exc.type = "ValueError"
    /\ exc.message.text = "Invalid date format: {date_str}. Use YYYY-MM-DD"
    /\ exc.message.arg = text

\* C9 as stated: parse_date gives today's date for None and for the empty
\* text; a text is parsed only if it is exactly YYYY-MM-DD, and every text of
\* another shape fails with the invalid-format error carrying the text.
C9_OnlyExactPattern ==
    ret.applied =>
        /\ Absent(arg) => ret.value = [ok |-> TRUE, value |-> today]
        /\ ~Absent(arg) /\ ~ExactPattern(arg) =>
              ~ret.value.ok /\ CarriesText(ret.value.exc, arg)
        /\ ~Absent(arg) /\ ret.value.ok => ret.value.value \in Denoted(arg)

\* C9 amended: parse_date gives today's date for None and for the empty text;
\* a text is parsed as strptime reads '%Y-%m-%d': a year of four digits, a
\* month and a day of one or two digits each (so "2024-3-5" is 2024-03-05; a
\* one-digit day may follow a space), separated by "-", with nothing before
\* or after, naming a date of the calendar, and parse_date returns that
\* date; every other text fails with the invalid-format error carrying it.
C9_LenientFields ==
    ret.applied =>
        /\ Absent(arg) => ret.value = [ok |-> TRUE, value |-> today]
        /\ ~Absent(arg) /\ Denoted(arg) # {} =>
              ret.value.ok /\ ret.value.value \in Denoted(arg)
        /\ ~Absent(arg) /\ Denoted(arg) = {} =>
              ~ret.value.ok /\ CarriesText(ret.value.exc, arg)

\* "2024-3-5" was parsed as 2024-03-05
C9_Witness ==
    /\ ret.applied
    /\ arg = <<"2", "0", "2", "4", "-", "3", "-", "5">>
    /\ ret.value.ok
    /\ ret.value.value = Date(2024, 3, 5)

\* C10 as stated: 2000 ml is rendered as 67 oz and 8.5 cups, 1500 ml as 51 oz
\* and 6.3 cups.
C10_WaterAsStated ==
    ret.applied =>
        /\ arg = 2000 => ret.value.text.water_oz = 67
                          /\ ret.value.text.water_cups = 85
        /\ arg = 1500 => ret.value.text.water_oz = 51
                          /\ ret.value.text.water_cups = 63

\* C10 amended: the daily summary and the water intake report render 2000 ml
\* as 68 oz (2000 / 29.5735 = 67.63) and 8.5 cups, and 1500 ml as 51 oz and
\* 6.3 cups.
C10_WaterRendered ==
    ret.applied =>
        /\ arg = 2000 => ret.value.text.water_oz = 68
                          /\ ret.value.text.water_cups = 85
        /\ arg = 1500 => ret.value.text.water_oz = 51
                          /\ ret.value.text.water_cups = 63

\* the water intake report of a day of 2000 ml
C10_Witness ==
    /\ ret.applied
    /\ arg = 2000
    /\ ret.value.tool = "get_water_intake"
    /\ ret.value.text.water_oz = 68
    /\ ret.value.text.water_ml = 2000

NutrientLines == ret.value.macronutrients \o ret.value.micronutrients

LinesOf(key) == SelectSeq(NutrientLines, LAMBDA l : l.name = key)

HasGoal(key) == key \in DOMAIN arg.goals /\ arg.goals[key] > 0

GatedKeys == Range(FatKeys) \cup Range(MicroKeys)

\* the line shows the stored total, 0 when absent (a fat sub-line in tenths)
ShowsTotal(l) ==
    l.value = IF l.name \in Range(FatKeys)
              THEN 10 * Get(arg.totals, l.name)
              ELSE Get(arg.totals, l.name)

\* "value / goal (percent)" exactly when the goal is present and > 0
ByGoal(l) ==
    /\ l.bare <=> ~HasGoal(l.name)
    /\ ~l.bare => /\ l.goal = arg.goals[l.name]
                   /\ l.percent = RoundHalfEven(l.value * 100, l.goal)

\* which lines there are: the six always, the others when their key exists
LinesPresent ==
    /\ \A k \in MacroKeys : Len(LinesOf(k)) = 1
    /\ \A k \in GatedKeys :
          Len(LinesOf(k)) = IF k \in DOMAIN arg.totals THEN 1 ELSE 0

\* C11 as stated: every nutrient line of get_daily_macros is "value / goal
\* (percent)" exactly when its goal is present and > 0 and the bare value
\* otherwise; the six macronutrients are always rendered, an absent total as
\* 0; fat sub-lines and micronutrient lines exist exactly when their key is
\* in totals, a stored 0 included.
C11_EveryLineByGoal ==
    ret.applied =>
        /\ LinesPresent
        /\ \A i \in 1..Len(NutrientLines) :
              ShowsTotal(NutrientLines[i]) /\ ByGoal(NutrientLines[i])

\* C11 amended: the lines of calories, carbohydrates, protein, fat, fiber,
\* sugar and of the seven micronutrients are "value / goal (percent)" exactly
\* when the goal is present and > 0 and the bare value otherwise; the four
\* fat sub-lines are always the bare value with one decimal, whatever their
\* goal; the six macronutrients are always rendered, an absent total as 0;
\* fat sub-lines and micronutrient lines exist exactly when their key is in
\* totals, a stored 0 included.
C11_FormattedLinesByGoal ==
    ret.applied =>
        /\ LinesPresent
        /\ \A i \in 1..Len(NutrientLines) :
              LET l == NutrientLines[i]
              IN  /\ ShowsTotal(l)
                  /\ IF l.name \in Range(FatKeys) THEN l.bare ELSE ByGoal(l)

\* a micronutrient stored as 0 with a goal is rendered with its percent, a
\* macronutrient absent from totals and goals as a bare 0, and a fat
\* sub-line with a goal as a bare value
C11_Witness ==
    /\ ret.applied
    /\ \E k \in Range(MicroKeys) :
          /\ k \in DOMAIN arg.totals /\ arg.totals[k] = 0 /\ HasGoal(k)
          /\ Len(LinesOf(k)) = 1 /\ ~LinesOf(k)[1].bare
    /\ \E k \in MacroKeys :
          /\ k \notin DOMAIN arg.totals /\ k \notin DOMAIN arg.goals
          /\ LinesOf(k)[1].bare /\ LinesOf(k)[1].value = 0
    /\ \E k \in Range(FatKeys) :
          /\ k \in DOMAIN arg.totals /\ HasGoal(k)
          /\ LinesOf(k)[1].bare

\* the Day of the pool a snapshot was taken from (the Days of the pool differ
\* in their calories)
DayOf(snap) ==
    [date |-> snap.date] @@
    CHOOSE d \in DayPool :
        d.water.ok /\ Snapshot([date |-> snap.date] @@ d).value = snap

\* at least one exercise category of the Day has entries
Populated(day) ==
    \E i \in 1..Len(day.exercises) : day.exercises[i].entries # <<>>

\* get_daily_exercise says of the Day that no exercise is logged
NoExerciseLogged(day) ==
    ExerciseReport(day, day.date).value.none = "No exercise logged for this day."

ExerciseMarks(line) == SelectSeq(line.status, LAMBDA m : m.mark = "exercises")

RangeSummaryMade ==
    /\ pc = "done"
    /\ call.tool = RangeTool
    /\ IsText(response)
    /\ response.text.form = "# Date Range Summary"

\* C12: in the summary of get_date_range_summary, "Days with Exercise" counts
\* the yielded days with at least one exercise category that has entries; a
\* day of which get_daily_exercise says "No exercise logged for this day."
\* is not counted and its breakdown line has no "<n> exercises" marker.
C12_CountsPopulatedDays ==
    RangeSummaryMade =>
        /\ response.text.days_with_exercise[1] =
               Cardinality({i \in 1..Len(daily_data) :
                               Populated(DayOf(daily_data[i]))})
        /\ \A i \in 1..Len(daily_data) :
              NoExerciseLogged(DayOf(daily_data[i])) =>
                  ExerciseMarks(response.text.breakdown[i]) = <<>>

\* what holds of the code: "Days with Exercise" counts the yielded days that
\* have at least one exercise category, with or without entries, and the
\* marker of a day gives the number of its categories
C12_CountsDaysWithCategories ==
    RangeSummaryMade =>
        /\ response.text.days_with_exercise[1] =
               Cardinality({i \in 1..Len(daily_data) :
                               DayOf(daily_data[i]).exercises # <<>>})
        /\ \A i \in 1..Len(daily_data) :
              ExerciseMarks(response.text.breakdown[i]) =
                  IF DayOf(daily_data[i]).exercises = <<>> THEN <<>>
                  ELSE <<[mark |-> "exercises",
                          n |-> Len(DayOf(daily_data[i]).exercises)]>>

\* the invocation fails at date parsing, or at the validation of the range
FailsEarly(c) ==
    IF c.tool = RangeTool
    THEN LET first == parse_date(c.args[1], today)
             last == parse_date(c.args[2], today)
         IN  \/ ~first.ok
             \/ ~last.ok
             \/ DateLess(last.value, first.value)
    ELSE ~parse_date(c.args[1], today).ok

\* a tool is invoked in this step
Invoked == pc = "idle" /\ call' # NoCall

Stage(event) ==
    CASE event \in {"parse", "parse_error"} -> 1
      [] event \in {"validate", "validation_error"} -> 2
      [] event \in {"construct", "construct_error"} -> 3
      [] OTHER -> 4

\* parsing, then validation, then the construction of the client, then the
\* fetches and what follows them; nothing after a failed parse or validation
InOrder(what) ==
    /\ \A i, j \in 1..Len(what) : i < j => Stage(what[i]) <= Stage(what[j])
    /\ \A i \in 1..Len(what) :
          what[i] \in {"parse_error", "validation_error"} => i = Len(what)
    /\ what # <<>> => Stage(what[1]) = 1

\* C13: a tool invocation that fails at date parsing, or at the
\* start-after-end validation of the range summary, ends at once with
\* _client, the count of constructions and the warnings as they were and
\* with no fetch issued; and in every invocation the steps come in the order
\* parse, validate, construct the client, fetch.
C13_EarlyFailureLeavesState ==
    [][/\ Invoked /\ FailsEarly(call') =>
            /\ pc' = "done"
            /\ _client' = _client
            /\ constructions' = constructions
            /\ warnings' = warnings
            /\ fetches' = <<>>
            /\ daily_data' = <<>>
            /\ ~Has(events', "construct") /\ ~Has(events', "construct_error")
            /\ ~Has(events', "fetch") /\ ~Has(events', "fetch_error")
       /\ InOrder(events')]_vars

\* a single-day tool ended on the date it could not parse, with the client
\* still unset and no fetch
C13_Witness ==
    /\ pc = "done"
    /\ call.tool = "get_daily_meals"
    /\ call.args = <<Text_03_15_2024>>
    /\ events = <<"parse_error">>
    /\ _client = NoClient
    /\ constructions = 0
    /\ fetches = <<>>
    /\ IsErrorText(response, "meals")

====
